---- MODULE Spec2Model ----
(***************************************************************************)
(* PrivacyVotingDAOv2 (contracts/PrivacyVotingDAOv2.sol) with its          *)
(* SemaphoreVerifier, and the proof generation of the web client           *)
(* (frontend/src/components/Vote.tsx).                                     *)
(*                                                                         *)
(* Every external function of the contract is one action: a transaction    *)
(* either commits all of its writes and events or reverts and leaves the   *)
(* storage as it was.  The VoteCast events emitted so far are kept in      *)
(* `castLog`, the ids of the ProposalCreated events in `createLog`, the     *)
(* value of the latest MemberRootUpdated event in `rootLog`.               *)
(***************************************************************************)
EXTENDS Integers, Sequences, FiniteSets, Bags, TLC

(* ------------------------------ bounds -------------------------------- *)

\* Proposals that may be created (proposalCount stops here).
MaxProposals == 1
\* block.timestamp ranges over 0..MaxTime.
MaxTime == 1
\* Votes that may be accepted in one run when any caller sends any
\* arguments (Next).
MaxVotes == 1
\* Votes that may be accepted in one run when members vote through the
\* client (NextMembers).
MaxMemberVotes == 2
\* Largest tally entry of the proposals that start with votes counted
\* (InitTallied).
MaxTally == 2
\* Width of the machine word standing for uint256.
WordBits == 8

Uint256Max == 2 ^ WordBits - 1

(* --------------------------- input domains ----------------------------- *)

\* msg.sender; Owner deployed the contract (Ownable(msg.sender)).
Owner == "owner"
Callers == {"owner", "alice"}

\* Proposal ids used as arguments: an id above proposalCount is not created
\* (yet).
Ids == 1 .. MaxProposals

\* Proposal ids where one more proposal than in Ids can be created, so that
\* two proposals exist side by side.
PairIds == 1 .. MaxProposals + 1

\* Membership roots: the bootstrap root and a later one.
BootRoot == 1
Roots == {1, 2}

Simple == "Simple"
Quadratic == "Quadratic"
Modes == {Simple, Quadratic}

\* The options arrays passed to createProposal.
OptionLists == {<<"Yes">>, <<"Yes", "No">>}
\* An options array one entry longer than a uint8 counts.
ManyOptions == [k \in 1 .. 256 |-> "Option"]
\* The options arrays passed to createProposal where long ones are sent too.
WideOptionLists == OptionLists \cup {ManyOptions}
\* uint8 option arguments.
OptionArgs == 0 .. 2
\* uint32 duration arguments.
Durations == {1}

\* Registered members (identity secrets).
Members == {"m1", "m2"}

(* ------------------------- hashing and strings ------------------------- *)

\* keccak256 is collision free on the inputs used: the digest is named by
\* its preimage.
Keccak256(bytes) == <<"keccak256", bytes>>

\* The Semaphore nullifier: Poseidon over the proof's scope and the
\* identity secret.
Poseidon(scope, secret) == <<"poseidon", scope, secret>>

\* bytes1(uint8(48 + d)) for a decimal digit d.
DigitChar(d) == <<"0", "1", "2", "3", "4", "5", "6", "7", "8", "9">>[d + 1]

RECURSIVE DecimalDigits(_)
\* The digits of a nonzero value, most significant first.
DecimalDigits(value) ==
    IF value = 0 THEN ""
    ELSE DecimalDigits(value \div 10) \o DigitChar(value % 10)

\* PrivacyVotingDAOv2._toString
_toString(value) == IF value = 0 THEN "0" ELSE DecimalDigits(value)

\* The template literal `${selectedOption}` of the client: Number to string.
NumberToString(n) == IF n = 0 THEN "0" ELSE DecimalDigits(n)

\* keccak256(abi.encodePacked("VOTE_", _toString(option)))
expectedSignalHash(option) == Keccak256("VOTE_" \o _toString(option))

\* The client's signal hash: solidityPackedKeccak256(["string"], [`VOTE_${selectedOption}`])
ClientSignalHash(selectedOption) == Keccak256("VOTE_" \o NumberToString(selectedOption))

\* signalHash arguments: the hashes of the signals of the option arguments.
SignalHashes == {ClientSignalHash(o) : o \in OptionArgs}

\* nullifierHash arguments: the nullifiers the identity of member m1 yields
\* for the scopes of options 0 and 1.
Nullifiers == {Poseidon(ClientSignalHash(o), "m1") : o \in 0 .. 1}

(* ------------------------------ state ---------------------------------- *)

VARIABLES
    now,                \* block.timestamp
    verifier,           \* the SemaphoreVerifier the contract was deployed with
    govToken,           \* the IERC20Votes the contract was deployed with
    memberMerkleRoot,   \* uint256 public memberMerkleRoot
    proposalCount,      \* uint256 public proposalCount
    proposals,          \* mapping(uint256 => Proposal) private _proposals
    castLog,            \* bag of the VoteCast events emitted so far
    createLog,          \* the ids of the ProposalCreated events emitted so far
    rootLog,            \* the newRoot of the latest MemberRootUpdated event, if any
    identity,           \* App: useState<Identity | null>, by its secret
    votedProposalIds,   \* App: useState<Set<number>>, in insertion order
    localStorage,       \* window.localStorage: the keys present and their values
    handleVoteCalls     \* the calls of App.handleVote awaiting dao.vote / tx.wait

vars == <<now, verifier, govToken, memberMerkleRoot, proposalCount, proposals,
          castLog, createLog, rootLog,
          identity, votedProposalIds, localStorage, handleVoteCalls>>

\* The state of the browser client.
clientVars == <<identity, votedProposalIds, localStorage, handleVoteCalls>>

\* The identity state of App when no identity is active (null).
NoIdentity == "null"

\* localStorage without any key.
NoItems == [k \in {} |-> ""]

\* The client before the page is loaded: the initial values of useState
\* and an empty localStorage.
ClientInit ==
    /\ identity = NoIdentity
    /\ votedProposalIds = <<>>
    /\ localStorage = NoItems
    /\ handleVoteCalls = {}

\* The contract's storage.
storage == <<memberMerkleRoot, proposalCount, proposals>>

\* A storage slot never written: every field is zero.
EmptyProposal ==
    [title |-> "", description |-> "", mode |-> Simple, options |-> <<>>,
     tally |-> <<>>, nullifiers |-> {}, closes |-> 0, closed |-> FALSE]

\* Reading mapping(uint256 => uint256): an absent key reads as 0.
TallyAt(p, i) == IF i \in DOMAIN p.tally THEN p.tally[i] ELSE 0

\* Writing mapping(uint256 => uint256) at key i.
TallyPut(p, i, v) ==
    [k \in (DOMAIN p.tally) \cup {i} |-> IF k = i THEN v ELSE p.tally[k]]

\* type(uint8).max, the "no winner" value of ProposalClosed.
NoWinner == 255

(* ----------------------------- deployment ------------------------------ *)

\* address(0) as the governance token.
ZeroAddress == "0x0"

\* Deployments: the one of scripts/deploy.ts and the tests (mock verifier,
\* no token), and one with a verifier that checks the proof and a token.
Deployed == [verifier |-> "mock", govToken |-> ZeroAddress]
Sound == [verifier |-> "sound", govToken |-> "token"]
Deployments == {Deployed, Sound}

\* IERC20Votes.getVotes of the deployed token.
getVotes(account) ==
    CASE account = "owner" -> 0
      [] account = "alice" -> 9
      [] OTHER -> Uint256Max

\* A proof is named by the public signals it was generated for; <<>> is
\* no proof of anything.
JunkProof == <<>>

\* SemaphoreVerifier.verifyProof: the mock of the repository returns true.
MockVerifyProof(proof, publicSignals) == TRUE

\* A verifier that checks the proof against the public signals.
SoundVerifyProof(proof, publicSignals) == proof = publicSignals

verifyProof(proof, publicSignals) ==
    IF verifier = "mock" THEN MockVerifyProof(proof, publicSignals)
    ELSE SoundVerifyProof(proof, publicSignals)

(* ------------------------------ sqrt ----------------------------------- *)

RECURSIVE sqrtLoop(_, _, _)
\* while (z < y) { y = z; z = (x / z + z) / 2; }
sqrtLoop(x, y, z) ==
    IF z < y THEN sqrtLoop(x, z, (x \div z + z) \div 2) ELSE y

\* x + 1 overflows the word: the checked addition panics.
sqrtPanics(x) == x # 0 /\ x + 1 > Uint256Max

\* PrivacyVotingDAOv2.sqrt, where it does not panic.
sqrt(x) == IF x = 0 THEN 0 ELSE sqrtLoop(x, x, (x + 1) \div 2)

(* --------------------------- transactions ------------------------------ *)

\* A transaction that reverts: the storage is as before, no event is
\* emitted.  `calls` lists the verifier calls made before the revert.
Revert(reason, calls) ==
    [status |-> "revert", reason |-> reason,
     memberMerkleRoot |-> memberMerkleRoot, proposalCount |-> proposalCount,
     proposals |-> proposals, events |-> <<>>, calls |-> calls]

\* A transaction that commits the storage given, with its events.
Commit(root, count, props, events, calls) ==
    [status |-> "ok", reason |-> "",
     memberMerkleRoot |-> root, proposalCount |-> count,
     proposals |-> props, events |-> events, calls |-> calls]

\* Mutation of onlyOwner: the modifier is missing.
anyCaller(sender) == TRUE

\* modifier onlyOwner (OpenZeppelin Ownable, owner set by the constructor)
onlyOwner(sender) == sender = Owner

\* Mutation of updateMemberRootTx: a root equal to the current one is
\* refused.
updateMemberRootIfNew(sender, newRoot) ==
    IF ~onlyOwner(sender) THEN Revert("OwnableUnauthorizedAccount", <<>>)
    ELSE IF newRoot = memberMerkleRoot THEN Revert("same root", <<>>)
    ELSE Commit(newRoot, proposalCount, proposals,
                <<[name |-> "MemberRootUpdated", newRoot |-> newRoot]>>, <<>>)

\* PrivacyVotingDAOv2.updateMemberRoot
updateMemberRootTx(sender, newRoot) ==
    IF ~onlyOwner(sender) THEN Revert("OwnableUnauthorizedAccount", <<>>)
    ELSE Commit(newRoot, proposalCount, proposals,
                <<[name |-> "MemberRootUpdated", newRoot |-> newRoot]>>, <<>>)

\* Mutation of createProposalTx: ++proposalCount is kept when the options
\* are refused.
createProposalCounting(sender, title, description, mode, options, duration) ==
    IF ~onlyOwner(sender) THEN Revert("OwnableUnauthorizedAccount", <<>>)
    ELSE [Revert("need 2+ opts", <<>>) EXCEPT !.proposalCount = proposalCount + 1]

\* Mutation of createProposalTx: "need 1+ opts".
createProposalOneOption(sender, title, description, mode, options, duration) ==
    IF ~onlyOwner(sender) THEN Revert("OwnableUnauthorizedAccount", <<>>)
    ELSE IF ~(Len(options) >= 1) THEN Revert("need 2+ opts", <<>>)
    ELSE LET id == proposalCount + 1
             p  == [proposals[id] EXCEPT
                       !.title = title, !.description = description,
                       !.mode = mode, !.options = options,
                       !.closes = now + duration]
         IN  Commit(memberMerkleRoot, id, [proposals EXCEPT ![id] = p],
                    <<[name |-> "ProposalCreated", id |-> id, mode |-> mode,
                       title |-> title, closes |-> p.closes]>>, <<>>)

\* Mutation of createProposalTx: the id is taken but proposalCount is not
\* written back.
createProposalSameId(sender, title, description, mode, options, duration) ==
    IF ~onlyOwner(sender) THEN Revert("OwnableUnauthorizedAccount", <<>>)
    ELSE IF ~(Len(options) >= 2) THEN Revert("need 2+ opts", <<>>)
    ELSE LET id == proposalCount + 1
             p  == [proposals[id] EXCEPT
                       !.title = title, !.description = description,
                       !.mode = mode, !.options = options,
                       !.closes = now + duration]
         IN  Commit(memberMerkleRoot, proposalCount,
                    [proposals EXCEPT ![id] = p],
                    <<[name |-> "ProposalCreated", id |-> id, mode |-> mode,
                       title |-> title, closes |-> p.closes]>>, <<>>)

\* PrivacyVotingDAOv2.createProposal
createProposalTx(sender, title, description, mode, options, duration) ==
    IF ~onlyOwner(sender) THEN Revert("OwnableUnauthorizedAccount", <<>>)
    ELSE IF ~(Len(options) >= 2) THEN Revert("need 2+ opts", <<>>)
    ELSE LET id == proposalCount + 1
             p  == [proposals[id] EXCEPT
                       !.title = title, !.description = description,
                       !.mode = mode, !.options = options,
                       !.closes = now + duration]
         IN  Commit(memberMerkleRoot, id, [proposals EXCEPT ![id] = p],
                    <<[name |-> "ProposalCreated", id |-> id, mode |-> mode,
                       title |-> title, closes |-> p.closes]>>, <<>>)

RECURSIVE winnerScanFirstMax(_, _, _, _)
\* Mutation of winnerScan: no tie reset, the first maximum wins.
winnerScanFirstMax(p, i, winner, high) ==
    IF ~(i < Len(p.options)) THEN winner
    ELSE LET v == TallyAt(p, i)
         IN  IF v > high THEN winnerScanFirstMax(p, i + 1, i, v)
             ELSE winnerScanFirstMax(p, i + 1, winner, high)

RECURSIVE winnerScanSticky(_, _, _, _)
\* Mutation of winnerScan: after a tie reset no later option can win.
winnerScanSticky(p, i, winner, high) ==
    IF ~(i < Len(p.options)) THEN winner
    ELSE IF i > 0 /\ winner = NoWinner THEN NoWinner
    ELSE LET v == TallyAt(p, i)
         IN  IF v > high THEN winnerScanSticky(p, i + 1, i, v)
             ELSE IF v = high THEN winnerScanSticky(p, i + 1, NoWinner, high)
             ELSE winnerScanSticky(p, i + 1, winner, high)

RECURSIVE winnerScan(_, _, _, _)
\* The loop of closeProposal from index i on, with the running winner and
\* maximum.
winnerScan(p, i, winner, high) ==
    IF ~(i < Len(p.options)) THEN winner
    ELSE LET v == TallyAt(p, i)
         IN  IF v > high THEN winnerScan(p, i + 1, i, v)
             ELSE IF v = high THEN winnerScan(p, i + 1, NoWinner, high)
             ELSE winnerScan(p, i + 1, winner, high)

\* ++i on the uint8 loop counter panics once it passes type(uint8).max.
scanPanics(p) == Len(p.options) > NoWinner

\* getProposal's `open`: !p.closed && block.timestamp < p.closes
isOpen(p) == ~p.closed /\ now < p.closes

\* PrivacyVotingDAOv2.closeProposal, on the storage `props`.
closeProposalOn(props, id, calls) ==
    LET p == props[id]
    IN  IF ~(~p.closed) THEN Revert("already closed", calls)
        ELSE IF ~(now >= p.closes) THEN Revert("not expired", calls)
        ELSE IF scanPanics(p) THEN Revert("panic", calls)
        ELSE Commit(memberMerkleRoot, proposalCount,
                    [props EXCEPT ![id].closed = TRUE],
                    <<[name |-> "ProposalClosed", id |-> id,
                       winner |-> winnerScan(p, 0, NoWinner, 0)]>>, calls)

closeProposalTx(sender, id) == closeProposalOn(proposals, id, <<>>)

\* Mutation of voteWeight: the mode is not looked at.
voteWeightAnyMode(p, sender) ==
    IF govToken # ZeroAddress
    THEN sqrt(getVotes(sender))
    ELSE 1

\* Mutation of voteWeight: the balance itself, without the square root.
voteWeightLinear(p, sender) ==
    IF p.mode = Quadratic /\ govToken # ZeroAddress
    THEN getVotes(sender)
    ELSE 1

\* uint256 weight of a vote sent by `sender` on proposal p.
voteWeight(p, sender) ==
    IF p.mode = Quadratic /\ govToken # ZeroAddress
    THEN sqrt(getVotes(sender))
    ELSE 1

\* The weight computation panics (inside sqrt).
weightPanics(p, sender) ==
    p.mode = Quadratic /\ govToken # ZeroAddress /\ sqrtPanics(getVotes(sender))

\* unchecked { p.tally[option] += weight; }
tallyAdd(old, weight) == (old + weight) % (Uint256Max + 1)

\* Mutation of consume: the nullifier is not registered.
consumeNothing(p, nullifierHash) == p

\* p.nullifiers[nullifierHash] = true
consume(p, nullifierHash) ==
    [p EXCEPT !.nullifiers = p.nullifiers \cup {nullifierHash}]

\* Mutation of addToTally: the weight is added to every entry.
addToTallyAll(p, option, weight) ==
    [p EXCEPT !.tally = [k \in OptionArgs |-> tallyAdd(TallyAt(p, k), weight)]]

\* unchecked { p.tally[option] += weight; }
addToTally(p, option, weight) ==
    [p EXCEPT !.tally = TallyPut(p, option, tallyAdd(TallyAt(p, option), weight))]

\* Mutation of recordVote: ProofVerified is not emitted.
recordVoteUnannounced(sender, id, option, signalHash, nullifierHash, merkleRoot, calls) ==
    LET p      == proposals[id]
        weight == voteWeight(p, sender)
        p2     == addToTally(consume(p, nullifierHash), option, weight)
        props  == [proposals EXCEPT ![id] = p2]
        events == <<[name |-> "VoteCast", id |-> id, option |-> option,
                     nullifierHash |-> nullifierHash, weight |-> weight]>>
    IN  IF weightPanics(p, sender) THEN Revert("panic", calls)
        ELSE IF now >= p2.closes /\ ~p2.closed
        THEN LET c == closeProposalOn(props, id, calls)
             IN  IF c.status = "ok"
                 THEN Commit(memberMerkleRoot, proposalCount, c.proposals,
                             events \o c.events, calls)
                 ELSE c
        ELSE Commit(memberMerkleRoot, proposalCount, props, events, calls)

\* The part of vote after the proof was verified.
recordVote(sender, id, option, signalHash, nullifierHash, merkleRoot, calls) ==
    LET p      == proposals[id]
        weight == voteWeight(p, sender)
        p2     == addToTally(consume(p, nullifierHash), option, weight)
        props  == [proposals EXCEPT ![id] = p2]
        events == <<[name |-> "ProofVerified", id |-> id,
                     merkleRoot |-> merkleRoot, nullifierHash |-> nullifierHash,
                     signalHash |-> signalHash],
                    [name |-> "VoteCast", id |-> id, option |-> option,
                     nullifierHash |-> nullifierHash, weight |-> weight]>>
    IN  IF weightPanics(p, sender) THEN Revert("panic", calls)
        ELSE IF now >= p2.closes /\ ~p2.closed
        THEN LET c == closeProposalOn(props, id, calls)
             IN  IF c.status = "ok"
                 THEN Commit(memberMerkleRoot, proposalCount, c.proposals,
                             events \o c.events, calls)
                 ELSE c
        ELSE Commit(memberMerkleRoot, proposalCount, props, events, calls)

\* require(block.timestamp < p.closes, "voting is closed")
votingOpen(p) == now < p.closes

\* Mutation of optionInRange: the option is not checked.
optionUnchecked(p, option) == TRUE

\* Mutation of optionInRange: "<=" for "<".
optionUpToLength(p, option) == option <= Len(p.options)

\* require(option < p.options.length, "invalid option")
optionInRange(p, option) == option < Len(p.options)

\* Mutation of nullifierUnused: one ledger for all proposals.
nullifierUnusedAnywhere(p, nullifierHash) ==
    \A i \in DOMAIN proposals : nullifierHash \notin proposals[i].nullifiers

\* require(!p.nullifiers[nullifierHash], "vote already cast")
nullifierUnused(p, nullifierHash) == nullifierHash \notin p.nullifiers

\* Mutation of rootIsCurrent: any root that was ever published passes.
rootIsKnown(merkleRoot) == merkleRoot \in Roots

\* require(merkleRoot == memberMerkleRoot, "invalid merkle root")
rootIsCurrent(merkleRoot) == merkleRoot = memberMerkleRoot

\* Mutation of signalMatches: the signal hash is not compared.
signalIgnored(signalHash, option) == TRUE

\* require(signalHash == uint256(expectedSignalHash), "signal-option mismatch")
signalMatches(signalHash, option) == signalHash = expectedSignalHash(option)

\* uint256[4] memory publicSignals
publicSignalsOf(id, signalHash, nullifierHash, merkleRoot) ==
    <<merkleRoot, nullifierHash, signalHash, id>>

\* verifier.verifyProof(proof, publicSignals), with its answer.
verifierCall(proof, publicSignals) ==
    [proof |-> proof, publicSignals |-> publicSignals,
     ok |-> verifyProof(proof, publicSignals)]

\* PrivacyVotingDAOv2.vote
voteTx(sender, id, option, signalHash, nullifierHash, merkleRoot, proof) ==
    LET p    == proposals[id]
        call == verifierCall(proof, publicSignalsOf(id, signalHash,
                                                    nullifierHash, merkleRoot))
    IN  IF ~votingOpen(p) THEN Revert("voting is closed", <<>>)
        ELSE IF ~optionInRange(p, option) THEN Revert("invalid option", <<>>)
        ELSE IF ~nullifierUnused(p, nullifierHash)
        THEN Revert("vote already cast", <<>>)
        ELSE IF ~rootIsCurrent(merkleRoot)
        THEN Revert("invalid merkle root", <<>>)
        ELSE IF ~signalMatches(signalHash, option)
        THEN Revert("signal-option mismatch", <<>>)
        ELSE IF ~call.ok THEN Revert("invalid proof", <<call>>)
        ELSE recordVote(sender, id, option, signalHash, nullifierHash,
                        merkleRoot, <<call>>)

(* ------------------------------- reads --------------------------------- *)

\* A view call that returns `value`.
Return(value) == [status |-> "ok", reason |-> "", value |-> value]

\* A view call that reverts.
ViewRevert(reason) == [status |-> "revert", reason |-> reason, value |-> <<>>]

\* PrivacyVotingDAOv2.getProposal
getProposal(id) ==
    LET p == proposals[id]
    IN  Return([title |-> p.title, mode |-> p.mode, open |-> isOpen(p),
                closes |-> p.closes, options |-> p.options])

\* type(uint16).max
Uint16Max == 65535

\* The entries tally[start .. end - 1] of p as a uint256[].
tallySlice(p, start, end) ==
    [k \in 1 .. end - start |-> TallyAt(p, start + k - 1)]

\* Mutation of tallies: require(start <= len, "oob").
talliesFromEnd(id, start, n) ==
    LET p   == proposals[id]
        len == Len(p.options) % (Uint16Max + 1)
    IN  IF ~(start <= len) THEN ViewRevert("oob")
        ELSE IF n # 0 /\ start + n > Uint16Max THEN ViewRevert("panic")
        ELSE LET end == IF n = 0 \/ start + n > len \/ start + n < start
                        THEN len ELSE start + n
             IN  IF start >= end /\ len > 0 THEN Return(<<>>)
                 ELSE Return(tallySlice(p, start, end))

\* PrivacyVotingDAOv2.tallies: start + n is a checked uint16 addition.
tallies(id, start, n) ==
    LET p   == proposals[id]
        len == Len(p.options) % (Uint16Max + 1)
    IN  IF ~(start < len) THEN ViewRevert("oob")
        ELSE IF n # 0 /\ start + n > Uint16Max THEN ViewRevert("panic")
        ELSE LET end == IF n = 0 \/ start + n > len \/ start + n < start
                        THEN len ELSE start + n
             IN  IF start >= end /\ len > 0 THEN Return(<<>>)
                 ELSE Return(tallySlice(p, start, end))

\* uint16 start and n arguments of tallies.
StartArgs == {0, 1, 2, 3, Uint16Max}
CountArgs == {0, 1, 2, 3, Uint16Max}

(* ------------------------------ client --------------------------------- *)

\* group.root of the member list compiled into the client and the tests:
\* the root the contract is deployed with.
GroupRoot == BootRoot

\* generateProof(identity, group, externalNullifier, signalHash, ...) as
\* called by Vote.handleVote and the tests: the third argument is the
\* proof's message, the fourth its scope, and the nullifier is derived from
\* the scope and the identity (here its secret).
generateProof(secret, message, scope) ==
    [merkleTreeRoot |-> GroupRoot,
     nullifier |-> Poseidon(scope, secret),
     message |-> message,
     scope |-> scope]

\* The arguments of dao.vote built from the proof of `member` for
\* `selectedOption` on `proposalId`.
memberVoteArgs(member, proposalId, selectedOption) ==
    LET signalHash == ClientSignalHash(selectedOption)
        fullProof  == generateProof(member, proposalId, signalHash)
    IN  [id |-> proposalId, option |-> selectedOption,
         signalHash |-> fullProof.scope,
         nullifierHash |-> fullProof.nullifier,
         merkleRoot |-> fullProof.merkleTreeRoot,
         proof |-> <<fullProof.merkleTreeRoot, fullProof.nullifier,
                     fullProof.scope, proposalId>>]

(* ------------------------------ actions -------------------------------- *)

\* The VoteCast events among `events`, as a bag.
VoteCasts(events) ==
    LET idx == {i \in DOMAIN events : events[i].name = "VoteCast"}
    IN  IF idx = {} THEN EmptyBag
        ELSE SetToBag({events[i] : i \in idx})

RECURSIVE CreatedIds(_)
\* The ids of the ProposalCreated events among `events`, in order.
CreatedIds(events) ==
    IF events = <<>> THEN <<>>
    ELSE IF Head(events).name = "ProposalCreated"
    THEN <<Head(events).id>> \o CreatedIds(Tail(events))
    ELSE CreatedIds(Tail(events))

RECURSIVE LatestRoot(_, _)
\* The log of the latest MemberRootUpdated event after `events` were
\* emitted, `log` being the log before.
LatestRoot(log, events) ==
    IF events = <<>> THEN log
    ELSE IF Head(events).name = "MemberRootUpdated"
    THEN LatestRoot(<<Head(events).newRoot>>, Tail(events))
    ELSE LatestRoot(log, Tail(events))

\* The transaction with outcome `out` is mined: its storage is written and
\* its events are logged (a reverted transaction writes and logs nothing).
Included(out) ==
    /\ memberMerkleRoot' = out.memberMerkleRoot
    /\ proposalCount' = out.proposalCount
    /\ proposals' = out.proposals
    /\ castLog' = castLog (+) VoteCasts(out.events)
    /\ createLog' = createLog \o CreatedIds(out.events)
    /\ rootLog' = LatestRoot(rootLog, out.events)
    /\ UNCHANGED <<now, verifier, govToken>>

\* A transaction sent by another party is mined: the client is not involved.
Mined(out) == Included(out) /\ UNCHANGED clientVars

updateMemberRoot(sender, newRoot) ==
    Mined(updateMemberRootTx(sender, newRoot))

createProposal(sender, title, description, mode, options, duration) ==
    Mined(createProposalTx(sender, title, description, mode, options, duration))

closeProposal(sender, id) ==
    Mined(closeProposalTx(sender, id))

vote(sender, id, option, signalHash, nullifierHash, merkleRoot, proof) ==
    Mined(voteTx(sender, id, option, signalHash, nullifierHash, merkleRoot, proof))

\* A member generates a proof and sends the vote, as the tests and
\* Vote.handleVote do.
memberVote(member, sender, proposalId, selectedOption) ==
    LET a == memberVoteArgs(member, proposalId, selectedOption)
    IN  Mined(voteTx(sender, a.id, a.option, a.signalHash, a.nullifierHash,
                     a.merkleRoot, a.proof))

\* A call of the view getProposal: it returns or reverts and writes nothing.
getProposalCall(id) ==
    /\ getProposal(id).status \in {"ok", "revert"}
    /\ UNCHANGED vars

\* A call of the view tallies: it returns or reverts and writes nothing.
talliesCall(id, start, n) ==
    /\ tallies(id, start, n).status \in {"ok", "revert"}
    /\ UNCHANGED vars

\* Time passes between blocks.
Tick ==
    /\ now' = now + 1
    /\ UNCHANGED <<verifier, govToken, memberMerkleRoot, proposalCount,
                   proposals, castLog, createLog, rootLog>>
    /\ UNCHANGED clientVars

(* ------------------------------ client --------------------------------- *)

\* The account of the wallet the client signs with.
Signer == "alice"

\* Secrets entered in the Register form.
Secrets == Members

\* The modes and options CreateProposal sends for a yes/no proposal.
ClientModes == {Simple}
ClientOptions == <<"Yes", "No">>

\* The options of the select of Vote for ClientOptions.
SelectedOptions == 0 .. 1

\* identity.commitment.toString(): one string per secret.
CommitmentString(secret) == "commitment-" \o secret

\* The localStorage keys of the client.
SecretItem == "semaphore-secret"
VotedItem(secret) == "voted_ids_" \o CommitmentString(secret)

\* localStorage.getItem(key) is not null.
hasItem(items, key) == key \in DOMAIN items

\* localStorage.setItem(key, value)
setItem(items, key, value) ==
    [k \in (DOMAIN items) \cup {key} |-> IF k = key THEN value ELSE items[k]]

\* localStorage.removeItem(key)
removeItem(items, key) == [k \in (DOMAIN items) \ {key} |-> items[k]]

\* JSON.stringify of an array of numbers, and JSON.parse of such a text.
JSONstringify(array) == <<"json", array>>
JSONparse(text) == text[2]

\* The elements of a Set (kept as the sequence of its insertions).
Elements(set) == {set[k] : k \in DOMAIN set}

\* set.has(x)
has(set, x) == x \in Elements(set)

\* new Set(set).add(x)
SetAdd(set, x) == IF has(set, x) THEN set ELSE Append(set, x)

RECURSIVE NewSet(_)
\* new Set(array): the first occurrence of every element, in order.
NewSet(array) ==
    IF array = <<>> THEN <<>>
    ELSE SetAdd(NewSet(SubSeq(array, 1, Len(array) - 1)), array[Len(array)])

\* What ethers puts around the revert reason in error.reason.
Affixes == {"", "execution reverted: "}

\* text.includes(part), for a text made of a reason and affixes.
includes(text, part) == \E a \in Affixes, b \in Affixes : text = a \o part \o b

\* The reason App.handleVote looks for in a failed vote.
AlreadyUsedText == "Nullifier already used"

\* The list persisted for the identity of `secret`, empty when absent.
storedVotedIds(items, secret) ==
    IF hasItem(items, VotedItem(secret))
    THEN NewSet(JSONparse(items[VotedItem(secret)]))
    ELSE <<>>

\* App.init (useEffect on mount): the page is loaded. The callbacks of the
\* page that is left never resume.
init ==
    LET currentIdentity == IF hasItem(localStorage, SecretItem)
                           THEN localStorage[SecretItem] ELSE NoIdentity
    IN  /\ identity' = currentIdentity
        /\ votedProposalIds' =
              IF currentIdentity # NoIdentity
              THEN storedVotedIds(localStorage, currentIdentity)
              ELSE <<>>
        /\ handleVoteCalls' = {}
        /\ UNCHANGED <<localStorage, now, verifier, govToken, memberMerkleRoot,
                       proposalCount, proposals, castLog, createLog, rootLog>>

\* App.handleRegister
handleRegister(secret) ==
    /\ localStorage' = setItem(localStorage, SecretItem, secret)
    /\ identity' = secret
    /\ votedProposalIds' = <<>>
    /\ UNCHANGED <<handleVoteCalls, now, verifier, govToken, memberMerkleRoot,
                   proposalCount, proposals, castLog, createLog, rootLog>>

\* App.handleClearIdentity
handleClearIdentity ==
    /\ localStorage' =
          removeItem(IF identity # NoIdentity
                     THEN removeItem(localStorage, VotedItem(identity))
                     ELSE localStorage,
                     SecretItem)
    /\ identity' = NoIdentity
    /\ votedProposalIds' = <<>>
    /\ UNCHANGED <<handleVoteCalls, now, verifier, govToken, memberMerkleRoot,
                   proposalCount, proposals, castLog, createLog, rootLog>>

\* Vote.handleVote up to the call of dao.vote in App.handleVote: the button
\* of a listed proposal is enabled, the proof is generated, and the call
\* keeps the identity and votedProposalIds of the render it was made in.
handleVoteStart(proposalId, selectedOption) ==
    /\ proposalId \in 1 .. proposalCount
    /\ identity # NoIdentity
    /\ ~has(votedProposalIds, proposalId)
    /\ \A c \in handleVoteCalls : c.proposalId # proposalId
    /\ handleVoteCalls' = handleVoteCalls \cup
          {[proposalId |-> proposalId, identity |-> identity,
            votedProposalIds |-> votedProposalIds,
            args |-> memberVoteArgs(identity, proposalId, selectedOption),
            stage |-> "sent", reason |-> ""]}
    /\ UNCHANGED <<identity, votedProposalIds, localStorage, now, verifier,
                   govToken, memberMerkleRoot, proposalCount, proposals,
                   castLog, createLog, rootLog>>

\* The transaction of a call is mined (tx.wait() settles) or refused.
voteIncluded(call) ==
    /\ call.stage = "sent"
    /\ LET out == voteTx(Signer, call.args.id, call.args.option,
                         call.args.signalHash, call.args.nullifierHash,
                         call.args.merkleRoot, call.args.proof)
       IN  /\ Included(out)
           /\ handleVoteCalls' = (handleVoteCalls \ {call}) \cup
                 {[call EXCEPT !.stage = IF out.status = "ok" THEN "ok"
                                         ELSE "failed",
                               !.reason = out.reason]}
    /\ UNCHANGED <<identity, votedProposalIds, localStorage>>

\* The two writes App.handleVote makes to record the proposal of `call`.
recordVoted(call, client) ==
    LET newVotedIds == SetAdd(call.votedProposalIds, call.proposalId)
    IN  [votedProposalIds |-> newVotedIds,
         localStorage |-> setItem(client.localStorage, VotedItem(call.identity),
                                  JSONstringify(newVotedIds))]

\* App.handleVote after the await, on the client state `client`.
handleVoteResumed(call, client) ==
    IF call.stage = "ok" THEN recordVoted(call, client)
    ELSE IF includes(call.reason, AlreadyUsedText) THEN recordVoted(call, client)
    ELSE client

\* The votedProposalIds and the localStorage of the client.
clientNow == [votedProposalIds |-> votedProposalIds, localStorage |-> localStorage]

\* App.handleVote resumes after the await.
handleVoteResume(call) ==
    /\ call.stage \in {"ok", "failed"}
    /\ LET client == handleVoteResumed(call, clientNow)
       IN  /\ votedProposalIds' = client.votedProposalIds
           /\ localStorage' = client.localStorage
    /\ handleVoteCalls' = handleVoteCalls \ {call}
    /\ UNCHANGED <<identity, now, verifier, govToken, memberMerkleRoot,
                   proposalCount, proposals, castLog, createLog, rootLog>>

\* A proposal id other than `id`.
OtherId(id) == IF id = 1 THEN 2 ELSE 1

\* Proofs sent with a vote on `id` carrying (merkleRoot, nullifierHash,
\* signalHash): the proof generated for them on this proposal, the one
\* generated for them on another proposal, and no proof.
ProofsTried(id, merkleRoot, nullifierHash, signalHash) ==
    {<<merkleRoot, nullifierHash, signalHash, id>>,
     <<merkleRoot, nullifierHash, signalHash, OtherId(id)>>,
     JunkProof}

\* The state after the constructor, for the deployments in D.
InitOf(D) ==
    /\ now = 0
    /\ \E d \in D : verifier = d.verifier /\ govToken = d.govToken
    /\ memberMerkleRoot = BootRoot
    /\ proposalCount = 0
    /\ proposals = [i \in Ids |-> EmptyProposal]
    /\ castLog = EmptyBag
    /\ createLog = <<>>
    /\ rootLog = <<>>
    /\ ClientInit

Init == InitOf(Deployments)
InitDeployed == InitOf({Deployed})
InitSound == InitOf({Sound})

\* The state after the constructor (mock verifier, no token), with room
\* for the proposals of PairIds.
InitPair ==
    /\ now = 0
    /\ verifier = Deployed.verifier
    /\ govToken = Deployed.govToken
    /\ memberMerkleRoot = BootRoot
    /\ proposalCount = 0
    /\ proposals = [i \in PairIds |-> EmptyProposal]
    /\ castLog = EmptyBag
    /\ createLog = <<>>
    /\ rootLog = <<>>
    /\ ClientInit

\* The options of the proposals that start with votes counted.
TalliedOptions == <<"A", "B", "C">>

\* The identity secret of the k-th member who voted for option i.
VoterOf(i, k) == "v" \o NumberToString(i) \o "." \o NumberToString(k)

\* The VoteCast events of proposal 1 in Simple mode after, for every option
\* i, t[i] members voted for it through the client.
TalliedCasts(t) ==
    {[name |-> "VoteCast", id |-> 1, option |-> ik[1],
      nullifierHash |-> Poseidon(ClientSignalHash(ik[1]), VoterOf(ik[1], ik[2])),
      weight |-> 1] :
        ik \in {x \in (DOMAIN t) \X (1 .. MaxTally) : x[2] <= t[x[1]]}}

\* Proposal 1 after it was created at time 0 with TalliedOptions in Simple
\* mode and the votes of TalliedCasts(t) were counted.
TalliedProposal(t) ==
    [title |-> "title", description |-> "description", mode |-> Simple,
     options |-> TalliedOptions,
     tally |-> [i \in {j \in DOMAIN t : t[j] > 0} |-> t[i]],
     nullifiers |-> {e.nullifierHash : e \in TalliedCasts(t)},
     closes |-> 1, closed |-> FALSE]

\* The deployment of scripts/deploy.ts, fresh or with proposal 1 created
\* and votes counted on it.
InitTallied ==
    \/ InitDeployed
    \/ /\ now = 0
       /\ verifier = Deployed.verifier
       /\ govToken = Deployed.govToken
       /\ memberMerkleRoot = BootRoot
       /\ proposalCount = 1
       /\ \E t \in [0 .. Len(TalliedOptions) - 1 -> 0 .. MaxTally] :
             /\ proposals = [i \in Ids |-> IF i = 1 THEN TalliedProposal(t)
                                           ELSE EmptyProposal]
             /\ castLog = SetToBag(TalliedCasts(t))
       /\ createLog = <<1>>
       /\ rootLog = <<>>
       /\ ClientInit

\* The number of votes of alice after which a tally entry of a Quadratic
\* proposal is the largest multiple of her weight that fits the word.
HeavyVotes == Uint256Max \div sqrt(getVotes("alice"))

\* The VoteCast events of proposal 1 in Quadratic mode after HeavyVotes
\* members voted for option 0 through the client, all sent by alice.
HeavyCasts ==
    {[name |-> "VoteCast", id |-> 1, option |-> 0,
      nullifierHash |-> Poseidon(ClientSignalHash(0), VoterOf(0, k)),
      weight |-> sqrt(getVotes("alice"))] : k \in 1 .. HeavyVotes}

\* The deployment with a token, fresh or with proposal 1 created in
\* Quadratic mode and the votes of HeavyCasts counted on it.
InitHeavy ==
    \/ InitSound
    \/ /\ now = 0
       /\ verifier = Sound.verifier
       /\ govToken = Sound.govToken
       /\ memberMerkleRoot = BootRoot
       /\ proposalCount = 1
       /\ proposals =
             [i \in Ids |->
                 IF i = 1
                 THEN [title |-> "title", description |-> "description",
                       mode |-> Quadratic, options |-> <<"Yes", "No">>,
                       tally |-> [o \in {0} |->
                                     HeavyVotes * sqrt(getVotes("alice"))],
                       nullifiers |-> {e.nullifierHash : e \in HeavyCasts},
                       closes |-> 1, closed |-> FALSE]
                 ELSE EmptyProposal]
       /\ castLog = SetToBag(HeavyCasts)
       /\ createLog = <<1>>
       /\ rootLog = <<>>
       /\ ClientInit

\* Any caller sends any transaction.
Next ==
    \/ \E sender \in Callers, newRoot \in Roots :
          updateMemberRoot(sender, newRoot)
    \/ /\ proposalCount < MaxProposals
       /\ \E sender \in Callers, mode \in Modes, options \in OptionLists,
             duration \in Durations :
             createProposal(sender, "title", "description", mode, options, duration)
    \/ \E sender \in Callers, id \in Ids : closeProposal(sender, id)
    \/ /\ BagCardinality(castLog) < MaxVotes
       /\ \E sender \in Callers, id \in Ids, option \in OptionArgs,
             signalHash \in SignalHashes, nullifierHash \in Nullifiers,
             merkleRoot \in Roots :
             \E proof \in ProofsTried(id, merkleRoot, nullifierHash, signalHash) :
                vote(sender, id, option, signalHash, nullifierHash, merkleRoot, proof)
    \/ \E id \in Ids : getProposalCall(id)
    \/ \E id \in Ids, start \in StartArgs, n \in CountArgs :
          talliesCall(id, start, n)
    \/ now < MaxTime /\ Tick

\* Any caller sends any transaction; on each proposal MaxVotes votes may be
\* accepted after those counted at the start.
NextHeavy ==
    \/ \E sender \in Callers, newRoot \in Roots :
          updateMemberRoot(sender, newRoot)
    \/ /\ proposalCount < MaxProposals
       /\ \E sender \in Callers, mode \in Modes, options \in OptionLists,
             duration \in Durations :
             createProposal(sender, "title", "description", mode, options, duration)
    \/ \E sender \in Callers, id \in Ids : closeProposal(sender, id)
    \/ /\ \A id \in Ids :
             Cardinality(proposals[id].nullifiers \cap Nullifiers) < MaxVotes
       /\ \E sender \in Callers, id \in Ids, option \in OptionArgs,
             signalHash \in SignalHashes, nullifierHash \in Nullifiers,
             merkleRoot \in Roots :
             \E proof \in ProofsTried(id, merkleRoot, nullifierHash, signalHash) :
                vote(sender, id, option, signalHash, nullifierHash, merkleRoot, proof)
    \/ \E id \in Ids : getProposalCall(id)
    \/ \E id \in Ids, start \in StartArgs, n \in CountArgs :
          talliesCall(id, start, n)
    \/ now < MaxTime /\ Tick

\* The votes are those the members send through the client.
NextMembers ==
    \/ \E sender \in Callers, newRoot \in Roots :
          updateMemberRoot(sender, newRoot)
    \/ /\ proposalCount < MaxProposals
       /\ \E sender \in Callers, mode \in Modes, options \in OptionLists,
             duration \in Durations :
             createProposal(sender, "title", "description", mode, options, duration)
    \/ \E sender \in Callers, id \in Ids : closeProposal(sender, id)
    \/ /\ BagCardinality(castLog) < MaxMemberVotes
       /\ \E member \in Members, sender \in Callers, id \in Ids,
             option \in OptionArgs :
             memberVote(member, sender, id, option)
    \/ \E id \in Ids : getProposalCall(id)
    \/ \E id \in Ids, start \in StartArgs, n \in CountArgs :
          talliesCall(id, start, n)
    \/ now < MaxTime /\ Tick

\* Up to MaxProposals + 1 proposals are created; the votes are those the
\* members send through the client.
NextPair ==
    \/ \E sender \in Callers, newRoot \in Roots :
          updateMemberRoot(sender, newRoot)
    \/ /\ proposalCount < MaxProposals + 1
       /\ \E sender \in Callers, mode \in Modes, options \in OptionLists,
             duration \in Durations :
             createProposal(sender, "title", "description", mode, options, duration)
    \/ \E sender \in Callers, id \in PairIds : closeProposal(sender, id)
    \/ /\ BagCardinality(castLog) < MaxVotes
       /\ \E member \in Members, sender \in Callers, id \in PairIds,
             option \in OptionArgs :
             memberVote(member, sender, id, option)
    \/ now < MaxTime /\ Tick

\* Any caller sends any transaction; proposals of any length are created.
NextWide ==
    \/ \E sender \in Callers, newRoot \in Roots :
          updateMemberRoot(sender, newRoot)
    \/ /\ proposalCount < MaxProposals
       /\ \E sender \in Callers, mode \in Modes, options \in WideOptionLists,
             duration \in Durations :
             createProposal(sender, "title", "description", mode, options, duration)
    \/ \E sender \in Callers, id \in Ids : closeProposal(sender, id)
    \/ /\ BagCardinality(castLog) < MaxVotes
       /\ \E sender \in Callers, id \in Ids, option \in OptionArgs,
             signalHash \in SignalHashes, nullifierHash \in Nullifiers,
             merkleRoot \in Roots :
             \E proof \in ProofsTried(id, merkleRoot, nullifierHash, signalHash) :
                vote(sender, id, option, signalHash, nullifierHash, merkleRoot, proof)
    \/ now < MaxTime /\ Tick

\* The owner creates yes/no proposals and one browser is used, for up to
\* MaxMemberVotes votes accepted or in flight.
NextClient ==
    \/ /\ proposalCount < MaxProposals + 1
       /\ \E mode \in ClientModes, duration \in Durations :
             createProposal(Owner, "title", "description", mode, ClientOptions,
                            duration)
    \/ init
    \/ \E secret \in Secrets : handleRegister(secret)
    \/ handleClearIdentity
    \/ /\ BagCardinality(castLog) + Cardinality(handleVoteCalls) < MaxMemberVotes
       /\ \E proposalId \in PairIds, selectedOption \in SelectedOptions :
             handleVoteStart(proposalId, selectedOption)
    \/ \E call \in handleVoteCalls : voteIncluded(call)
    \/ \E call \in handleVoteCalls : handleVoteResume(call)
    \/ now < MaxTime /\ Tick

Spec == Init /\ [][Next]_vars
SpecDeployed == InitDeployed /\ [][Next]_vars
SpecSound == InitSound /\ [][Next]_vars
SpecMembers == Init /\ [][NextMembers]_vars
SpecTallied == InitTallied /\ [][Next]_vars
SpecHeavy == InitHeavy /\ [][NextHeavy]_vars
SpecPair == InitPair /\ [][NextPair]_vars
SpecWide == InitDeployed /\ [][NextWide]_vars
SpecClient == InitPair /\ [][NextClient]_vars

(* ------------------------- claims: definitions ------------------------- *)

RECURSIVE SetSum(_, _)
\* The sum of w[x] over the x in S.
SetSum(S, w) ==
    IF S = {} THEN 0
    ELSE LET x == CHOOSE y \in S : TRUE
         IN  w[x] + SetSum(S \ {x}, w)

\* The distinct VoteCast events logged.
CastEvents == BagToSet(castLog)

\* Number of votes accepted on proposal id carrying nullifier n.
AcceptedWith(id, n) ==
    LET S == {e \in CastEvents : e.id = id /\ e.nullifierHash = n}
    IN  SetSum(S, [e \in S |-> castLog[e]])

\* The nullifiers of the members for the scopes of options 0 and 1.
MemberNullifiers ==
    {Poseidon(ClientSignalHash(o), m) : o \in 0 .. 1, m \in Members}

\* The failure kinds of the interface, by the revert reason of the contract.
ProposalClosedKind == "voting is closed"
InvalidOptionKind == "invalid option"
NullifierAlreadyUsedKind == "vote already cast"
RootMismatchKind == "invalid merkle root"
SignalMismatchKind == "signal-option mismatch"
ProofInvalidKind == "invalid proof"

(* ------------------------------- C1 ------------------------------------ *)

\* C1: for every proposal and nullifier at most one vote carrying them is
\* ever accepted; the pair is in the ledger exactly when such a vote was
\* accepted (so it stays consumed), and while it is there a further
\* submission carrying it that is valid otherwise fails with
\* NullifierAlreadyUsed when the proposal takes votes and the option is in
\* range, and fails in any case.
C1_NullifierAcceptedOnce ==
    \A id \in Ids, n \in MemberNullifiers :
        /\ AcceptedWith(id, n) <= 1
        /\ (AcceptedWith(id, n) = 1) <=> (n \in proposals[id].nullifiers)
        /\ n \in proposals[id].nullifiers =>
              \A sender \in Callers, option \in OptionArgs, merkleRoot \in Roots :
                 LET signalHash == expectedSignalHash(option)
                     out == voteTx(sender, id, option, signalHash, n, merkleRoot,
                                   <<merkleRoot, n, signalHash, id>>)
                 IN  /\ out.status = "revert"
                     /\ (now < proposals[id].closes
                           /\ option < Len(proposals[id].options))
                          => out.reason = NullifierAlreadyUsedKind

\* C1 witness: two votes were accepted, the root was replaced since, and a
\* second submission of a consumed (proposal, nullifier) that is valid
\* otherwise is refused with NullifierAlreadyUsed.
C1_Witness ==
    /\ BagCardinality(castLog) = 2
    /\ memberMerkleRoot # BootRoot
    /\ \E e \in CastEvents :
          voteTx("alice", e.id, e.option, ClientSignalHash(e.option),
                 e.nullifierHash, memberMerkleRoot,
                 <<memberMerkleRoot, e.nullifierHash,
                   ClientSignalHash(e.option), e.id>>).reason
            = NullifierAlreadyUsedKind

(* ------------------------------- C2 ------------------------------------ *)

\* The sum of the tally of proposal id over its options.
TallySum(id) ==
    LET p == proposals[id]
        I == 0 .. Len(p.options) - 1
    IN  SetSum(I, [i \in I |-> TallyAt(p, i)])

\* The votes accepted on proposal id, and the sum of their weights.
AcceptedOn(id) ==
    LET S == {e \in CastEvents : e.id = id}
    IN  SetSum(S, [e \in S |-> castLog[e]])

WeightSum(id) ==
    LET S == {e \in CastEvents : e.id = id}
    IN  SetSum(S, [e \in S |-> castLog[e] * e.weight])

\* C2: for every proposal the tallies of its options add up to the weights
\* of the votes accepted on it, which in Simple mode is their number.
C2_TallySumIsWeightSum ==
    \A id \in Ids :
        /\ TallySum(id) = WeightSum(id)
        /\ proposals[id].mode = Simple => TallySum(id) = AcceptedOn(id)

(* ------------------------------- C3 ------------------------------------ *)

\* The nullifiers the client's proof generation yields for a member on
\* proposal id, over the options the member may select.
NullifiersOf(member, id) ==
    {memberVoteArgs(member, id, o).nullifierHash : o \in OptionArgs}

\* Number of votes of `member` accepted on proposal id.
AcceptedOf(member, id) ==
    LET S == {e \in CastEvents :
                 e.id = id /\ e.nullifierHash \in NullifiersOf(member, id)}
    IN  SetSum(S, [e \in S |-> castLog[e]])

\* C3: with a sound verifier and votes sent through the client, at most one
\* vote of each member is accepted on each proposal, whichever options the
\* member selects.
C3_OneVotePerMember ==
    verifier = "sound" =>
        \A id \in Ids, member \in Members : AcceptedOf(member, id) <= 1

(* ------------------------------- C4 ------------------------------------ *)

\* The vote submissions considered in every state.
VoteInputs ==
    UNION {{[sender |-> s, id |-> i, option |-> o, signalHash |-> h,
             nullifierHash |-> n, merkleRoot |-> r, proof |-> pf] :
               pf \in ProofsTried(i, r, n, h)} :
           s \in Callers, i \in Ids, o \in OptionArgs, h \in SignalHashes,
           n \in Nullifiers, r \in Roots}

\* The outcome of submission v in the current state.
voteOutcome(v) ==
    voteTx(v.sender, v.id, v.option, v.signalHash, v.nullifierHash,
           v.merkleRoot, v.proof)

\* Proposal id was created.
created(id) == id \in 1 .. proposalCount

\* Check 1 of the vote validation: the proposal exists and is open.
proposalOpen(id) == created(id) /\ isOpen(proposals[id])

\* C4: in every reachable state a vote is accepted only on a proposal that
\* was created, is not closed and whose close time is not reached; every
\* vote on any other proposal fails with ProposalClosed.
C4_AcceptedOnlyWhenOpen ==
    \A v \in VoteInputs :
        LET out == voteOutcome(v)
        IN  /\ out.status = "ok" => proposalOpen(v.id)
            /\ ~proposalOpen(v.id) =>
                  out.status = "revert" /\ out.reason = ProposalClosedKind

(* ------------------------------- C5 ------------------------------------ *)

\* A failed transaction hands back the storage it found and logs nothing.
failureIsClean(out) ==
    out.status = "revert" =>
        /\ <<out.memberMerkleRoot, out.proposalCount, out.proposals>> = storage
        /\ out.events = <<>>

VoteFailureKinds ==
    <<ProposalClosedKind, InvalidOptionKind, NullifierAlreadyUsedKind,
      RootMismatchKind, SignalMismatchKind, ProofInvalidKind>>

\* The six checks of the vote validation on submission v, each taken
\* alone: proposal open, option in range, nullifier unused, root current,
\* signal matches, proof verifies.
VoteChecks(v) ==
    LET p == proposals[v.id]
    IN  <<proposalOpen(v.id),
          v.option < Len(p.options),
          v.nullifierHash \notin p.nullifiers,
          v.merkleRoot = memberMerkleRoot,
          v.signalHash = Keccak256("VOTE_" \o _toString(v.option)),
          verifyProof(v.proof, <<v.merkleRoot, v.nullifierHash,
                                 v.signalHash, v.id>>)>>

\* The checks of 1..6 that submission v violates.
Violated(v) == {i \in 1 .. 6 : ~VoteChecks(v)[i]}

\* The least element of a nonempty set of numbers.
Least(S) == CHOOSE i \in S : \A j \in S : i <= j

\* C6: in every reachable state a submission that violates one or more of
\* the six checks fails with the kind of the earliest check it violates.
C6_EarliestFailureKind ==
    \A v \in VoteInputs :
        Violated(v) # {} =>
            LET out == voteOutcome(v)
            IN  /\ out.status = "revert"
                /\ out.reason = VoteFailureKinds[Least(Violated(v))]

(* ------------------------------- C7 ------------------------------------ *)

\* C7: in every reachable state a vote on an open proposal whose option is
\* not below the number of options fails with InvalidOption, whatever its
\* other arguments, and writes no tally entry and no nullifier.
C7_InvalidOptionRejected ==
    \A v \in VoteInputs :
        (proposalOpen(v.id) /\ v.option >= Len(proposals[v.id].options)) =>
            LET out == voteOutcome(v)
            IN  /\ out.status = "revert"
                /\ out.reason = InvalidOptionKind
                /\ out.proposals = proposals

\* C7 witness: on an open proposal with two options a vote for option 2
\* that is valid otherwise is refused with InvalidOption.
C7_Witness ==
    \E id \in Ids :
        /\ proposalOpen(id)
        /\ Len(proposals[id].options) = 2
        /\ LET n == Poseidon(ClientSignalHash(1), "m1")
               h == expectedSignalHash(2)
           IN  /\ n \notin proposals[id].nullifiers
               /\ voteTx("alice", id, 2, h, n, memberMerkleRoot,
                         <<memberMerkleRoot, n, h, id>>).reason
                    = InvalidOptionKind

(* ------------------------------- C8 ------------------------------------ *)

\* Checks 1 to 3 of the contract pass for submission v.
passes123(v) ==
    LET p == proposals[v.id]
    IN  /\ now < p.closes
        /\ v.option < Len(p.options)
        /\ v.nullifierHash \notin p.nullifiers

\* C8: in every reachable state a vote that passes checks 1-4 and whose
\* signal hash is not the hash of "VOTE_" followed by the decimal digits of
\* its option fails with SignalMismatch, also when the verifier accepts its
\* proof; the signal hash the client computes for option j is accepted for
\* no option other than j.
C8_SignalBoundToOption ==
    \A v \in VoteInputs :
        LET out == voteOutcome(v)
        IN  /\ (/\ passes123(v)
                /\ v.merkleRoot = memberMerkleRoot
                /\ v.signalHash # Keccak256("VOTE_" \o _toString(v.option)))
                 => out.status = "revert" /\ out.reason = SignalMismatchKind
            /\ \A j \in 0 .. 1 :
                  (v.signalHash = ClientSignalHash(j) /\ v.option # j)
                     => out.status = "revert"

\* C8 witness: a vote for option 0 carrying the client's signal hash of
\* option 1 and a proof the verifier accepts passes checks 1-4 and is
\* refused with SignalMismatch.
C8_Witness ==
    \E v \in VoteInputs :
        /\ v.option = 0
        /\ v.signalHash = ClientSignalHash(1)
        /\ passes123(v)
        /\ v.merkleRoot = memberMerkleRoot
        /\ verifyProof(v.proof, <<v.merkleRoot, v.nullifierHash,
                                  v.signalHash, v.id>>)
        /\ voteOutcome(v).reason = SignalMismatchKind

(* ------------------------------- C9 ------------------------------------ *)

\* The submissions the members' clients build, for a group with either
\* root.
MemberVoteInputs ==
    {[sender |-> s, id |-> i, option |-> o,
      signalHash |-> ClientSignalHash(o),
      nullifierHash |-> Poseidon(ClientSignalHash(o), m),
      merkleRoot |-> r,
      proof |-> <<r, Poseidon(ClientSignalHash(o), m), ClientSignalHash(o), i>>] :
        s \in Callers, i \in Ids, o \in OptionArgs, m \in Members, r \in Roots}

\* C9: in every reachable state every vote that is accepted carries the
\* current membership root, and a vote carrying another root that passes
\* checks 1-3 fails with RootMismatch; updateMemberRoot replaces the root
\* and leaves every proposal, with the votes counted on it, as it was.
C9_AcceptedOnCurrentRoot ==
    /\ \A v \in MemberVoteInputs :
          LET out == voteOutcome(v)
          IN  /\ out.status = "ok" => v.merkleRoot = memberMerkleRoot
              /\ (passes123(v) /\ v.merkleRoot # memberMerkleRoot)
                   => out.status = "revert" /\ out.reason = RootMismatchKind
    /\ \A sender \in Callers, newRoot \in Roots :
          LET out == updateMemberRootTx(sender, newRoot)
          IN  /\ out.proposals = proposals
              /\ out.proposalCount = proposalCount
              /\ out.status = "ok" => out.memberMerkleRoot = newRoot

\* C9 witness: a vote was accepted under the bootstrap root, the root was
\* replaced, the vote is still in the tally, and a vote that carries the
\* bootstrap root and is valid otherwise is refused with RootMismatch.
C9_Witness ==
    /\ memberMerkleRoot # BootRoot
    /\ \E id \in Ids, o \in 0 .. 1 :
          LET a == memberVoteArgs("m2", id, o)
          IN  /\ AcceptedOf("m1", id) = 1
              /\ AcceptedOf("m2", id) = 0
              /\ TallySum(id) > 0
              /\ voteTx("alice", a.id, a.option, a.signalHash,
                        a.nullifierHash, a.merkleRoot, a.proof).reason
                   = RootMismatchKind

(* ------------------------------- C10 ----------------------------------- *)

\* Checks 1 to 5 of the vote validation pass for submission v.
passes12345(v) ==
    \A i \in 1 .. 5 : VoteChecks(v)[i]

\* C10: in every reachable state a vote is accepted only if the verifier
\* answered true to the one call made with its proof and the public signals
\* (claimed root, nullifier, signal hash, id of the proposal voted on), in
\* that order; the verifier is called at most once, and only when checks
\* 1-5 pass; a false answer fails the vote with ProofInvalid; a sound
\* verifier accepts no proof generated for another proposal.
C10_VerifierGatesAcceptance ==
    \A v \in VoteInputs :
        LET out     == voteOutcome(v)
            signals == <<v.merkleRoot, v.nullifierHash, v.signalHash, v.id>>
        IN  /\ Len(out.calls) <= 1
            /\ out.calls # <<>> =>
                  /\ passes12345(v)
                  /\ out.calls[1].proof = v.proof
                  /\ out.calls[1].publicSignals = signals
            /\ out.status = "ok" => out.calls # <<>> /\ out.calls[1].ok
            /\ (out.calls # <<>> /\ ~out.calls[1].ok) =>
                  out.status = "revert" /\ out.reason = ProofInvalidKind
            /\ (verifier = "sound" /\ v.proof # signals) => out.status = "revert"

(* ------------------------------- C11 ----------------------------------- *)

\* The failure kinds of closeProposal, by the revert reason of the contract.
AlreadyClosedKind == "already closed"
TooEarlyKind == "not expired"

\* The ProposalClosed events among `events`.
Closures(events) ==
    {i \in DOMAIN events : events[i].name = "ProposalClosed"}

\* C11: in every reachable state closeProposal on a created proposal, by
\* any caller, fails with AlreadyClosed if the proposal is closed, else with
\* TooEarly if now < closesAt, and else succeeds: it sets closed, changes
\* nothing else and emits exactly one closure notification, for that id.
C11_CloseOutcome ==
    \A sender \in Callers, id \in Ids :
        created(id) =>
            LET p   == proposals[id]
                out == closeProposalTx(sender, id)
            IN  IF p.closed
                THEN out.status = "revert" /\ out.reason = AlreadyClosedKind
                ELSE IF now < p.closes
                THEN out.status = "revert" /\ out.reason = TooEarlyKind
                ELSE /\ out.status = "ok"
                     /\ out.proposals = [proposals EXCEPT ![id].closed = TRUE]
                     /\ out.memberMerkleRoot = memberMerkleRoot
                     /\ out.proposalCount = proposalCount
                     /\ Len(out.events) = 1
                     /\ Closures(out.events) = {1}
                     /\ out.events[1].id = id

(* ------------------------------- C12 ----------------------------------- *)

\* C12: in every reachable state closeProposal on an id that was not
\* created fails, changes no state and emits no closure notification.
C12_CloseUnknownFails ==
    \A sender \in Callers, id \in Ids :
        ~created(id) =>
            LET out == closeProposalTx(sender, id)
            IN  /\ out.status = "revert"
                /\ <<out.memberMerkleRoot, out.proposalCount, out.proposals>>
                     = storage
                /\ Closures(out.events) = {}

(* ------------------------------- C13 ----------------------------------- *)

\* The option indexes of proposal p.
OptionIndexes(p) == 0 .. Len(p.options) - 1

\* The options of p whose tally is strictly greater than that of every
\* other option.
Leaders(p) ==
    {i \in OptionIndexes(p) :
        \A j \in OptionIndexes(p) \ {i} : TallyAt(p, i) > TallyAt(p, j)}

\* The winner notified by a successful closeProposal with outcome `out`.
winnerOf(out) == out.events[Len(out.events)].winner

\* C13: in every reachable state a closeProposal that succeeds reports the
\* option whose tally is strictly greater than every other tally, and
\* reports the "no winner" value exactly when there is no such option.
C13_WinnerIsStrictLeader ==
    \A sender \in Callers, id \in Ids :
        LET p   == proposals[id]
            out == closeProposalTx(sender, id)
        IN  out.status = "ok" =>
              /\ Leaders(p) # {} => winnerOf(out) \in Leaders(p)
              /\ Leaders(p) = {} <=> winnerOf(out) = NoWinner

\* C13 witness: closeProposal succeeds on a proposal of three options of
\* which the last two share the highest tally, and reports no winner.
C13_Witness ==
    \E id \in Ids :
        LET p   == proposals[id]
            out == closeProposalTx("alice", id)
        IN  /\ Len(p.options) = 3
            /\ TallyAt(p, 1) = TallyAt(p, 2)
            /\ TallyAt(p, 1) > TallyAt(p, 0)
            /\ out.status = "ok"
            /\ winnerOf(out) = NoWinner

(* ------------------------------- C14 ----------------------------------- *)

\* Some option of p has tally zero.
hasZeroTally(p) == \E i \in OptionIndexes(p) : TallyAt(p, i) = 0

\* C14 as stated: in every reachable state a closeProposal that succeeds on
\* a proposal with an option of tally zero reports no winner, also when one
\* option has the strictly highest tally.
C14_ZeroTallyErasesLeader ==
    \A sender \in Callers, id \in Ids :
        LET p   == proposals[id]
            out == closeProposalTx(sender, id)
        IN  (out.status = "ok" /\ hasZeroTally(p) /\ Leaders(p) # {}) =>
               winnerOf(out) = NoWinner

\* C14 amended: in every reachable state a closeProposal that succeeds on a
\* proposal with an option of tally zero still reports the option with the
\* strictly highest tally when there is one; it reports no winner only when
\* no option is strictly highest.
C14_ZeroTallyKeepsLeader ==
    \A sender \in Callers, id \in Ids :
        LET p   == proposals[id]
            out == closeProposalTx(sender, id)
        IN  (out.status = "ok" /\ hasZeroTally(p)) =>
              /\ Leaders(p) # {} =>
                    winnerOf(out) # NoWinner /\ winnerOf(out) \in Leaders(p)
              /\ winnerOf(out) = NoWinner => Leaders(p) = {}

\* C14 witness: the first option has tally zero, the second has the
\* strictly highest tally, and closeProposal succeeds and reports the
\* second.
C14_Witness ==
    \E id \in Ids :
        LET p   == proposals[id]
            out == closeProposalTx("alice", id)
        IN  /\ Len(p.options) >= 2
            /\ TallyAt(p, 0) = 0
            /\ Leaders(p) = {1}
            /\ out.status = "ok"
            /\ winnerOf(out) = 1

(* ---------------------------- C15 and C16 ------------------------------ *)

\* Submission v arrives at or after the close time of a created proposal
\* that is not closed, and passes the checks 2 to 6.
lateValidVote(v) ==
    /\ created(v.id)
    /\ ~proposals[v.id].closed
    /\ now >= proposals[v.id].closes
    /\ \A i \in 2 .. 6 : VoteChecks(v)[i]

C16_LateVoteCounted ==
    \A v \in VoteInputs :
        lateValidVote(v) =>
            LET p   == proposals[v.id]
                out == voteOutcome(v)
            IN  /\ out.status = "ok"
                /\ TallyAt(out.proposals[v.id], v.option)
                     = TallyAt(p, v.option) + voteWeight(p, v.sender)

(* ------------------------------- C17 ----------------------------------- *)

\* C17: no step changes a tally entry or the nullifier ledger of a
\* proposal whose closed flag is true, and the flag stays true.
C17_ClosedIsFrozen ==
    [][\A id \in Ids :
          proposals[id].closed =>
              /\ proposals'[id].closed
              /\ proposals'[id].tally = proposals[id].tally
              /\ proposals'[id].nullifiers = proposals[id].nullifiers]_vars

(* ------------------------------- C18 ----------------------------------- *)

\* C18: in every reachable state every vote that is accepted leaves the
\* tally entry of its option at the previous value plus the vote's weight,
\* as integers, and lowers no tally entry.
C18_TallyAddsExactly ==
    \A v \in VoteInputs :
        LET p   == proposals[v.id]
            out == voteOutcome(v)
        IN  out.status = "ok" =>
              /\ TallyAt(out.proposals[v.id], v.option)
                   = TallyAt(p, v.option) + voteWeight(p, v.sender)
              /\ \A i \in OptionArgs :
                    TallyAt(out.proposals[v.id], i) >= TallyAt(p, i)

(* ------------------------------- C19 ----------------------------------- *)

\* The failure kind of createProposal, by the revert reason of the contract.
InvalidOptionsKind == "need 2+ opts"

\* Options arrays of fewer than 2 entries.
ShortOptionLists == {<<>>, <<"Yes">>}

\* C19: in every reachable state createProposal with fewer than 2 options
\* fails, with InvalidOptions when the caller is authorized, and leaves the
\* proposal count and every proposal as they were; every created proposal
\* has at least 2 options.
C19_ShortOptionsRefused ==
    /\ \A sender \in Callers, mode \in Modes, options \in ShortOptionLists,
          duration \in Durations :
          LET out == createProposalTx(sender, "title", "description", mode,
                                      options, duration)
          IN  /\ out.status = "revert"
              /\ onlyOwner(sender) => out.reason = InvalidOptionsKind
              /\ out.proposalCount = proposalCount
              /\ out.proposals = proposals
              /\ out.events = <<>>
    /\ \A id \in Ids : created(id) => Len(proposals[id].options) >= 2

\* C19 witness: one proposal exists with two options, and the owner's
\* createProposal with a single option is refused with InvalidOptions.
C19_Witness ==
    /\ proposalCount = 1
    /\ Len(proposals[1].options) = 2
    /\ createProposalTx(Owner, "title", "description", Simple, <<"Yes">>,
                        1).reason = InvalidOptionsKind

(* ------------------------------- C20 ----------------------------------- *)

isOpenAfter(out, id) ==
    ~out.proposals[id].closed /\ now < out.proposals[id].closes

\* C21: in every reachable state a createProposal that succeeds with a
\* positive duration leaves the new proposal with closes = now + duration,
\* every tally entry zero, no nullifier consumed and closed = false, so
\* that getProposal reports it open.
C21_FreshProposal ==
    proposalCount < MaxProposals =>
        \A sender \in Callers, mode \in Modes, options \in OptionLists,
           duration \in Durations :
           LET out == createProposalTx(sender, "title", "description", mode,
                                       options, duration)
               id  == proposalCount + 1
           IN  (out.status = "ok" /\ duration > 0) =>
                 /\ out.proposals[id].closes = now + duration
                 /\ \A i \in OptionArgs : TallyAt(out.proposals[id], i) = 0
                 /\ out.proposals[id].nullifiers = {}
                 /\ ~out.proposals[id].closed
                 /\ isOpenAfter(out, id)

(* ------------------------------- C22 ----------------------------------- *)

\* The failure kind of the owner-only functions (OwnableUnauthorizedAccount).
UnauthorizedKind == "OwnableUnauthorizedAccount"

\* A failed transaction that reports Unauthorized and leaves the storage.
refusedUnauthorized(out) ==
    /\ out.status = "revert"
    /\ out.reason = UnauthorizedKind
    /\ <<out.memberMerkleRoot, out.proposalCount, out.proposals>> = storage
    /\ out.events = <<>>

\* C22: in every reachable state createProposal and updateMemberRoot called
\* by anyone but the owner fail with Unauthorized and change nothing, and
\* succeed only for the owner; vote and closeProposal never fail with
\* Unauthorized, and closeProposal succeeds or fails alike for every caller.
C22_OwnerOnly ==
    /\ \A sender \in Callers \ {Owner} :
          /\ \A newRoot \in Roots :
                refusedUnauthorized(updateMemberRootTx(sender, newRoot))
          /\ \A mode \in Modes, options \in OptionLists \cup ShortOptionLists,
                duration \in Durations :
                refusedUnauthorized(createProposalTx(sender, "title",
                                       "description", mode, options, duration))
    /\ \A newRoot \in Roots : updateMemberRootTx(Owner, newRoot).status = "ok"
    /\ proposalCount < MaxProposals =>
          \A mode \in Modes, duration \in Durations :
             createProposalTx(Owner, "title", "description", mode,
                              <<"Yes", "No">>, duration).status = "ok"
    /\ \A sender \in Callers, id \in Ids :
          LET out == closeProposalTx(sender, id)
          IN  /\ out.reason # UnauthorizedKind
              /\ out.status = closeProposalTx(Owner, id).status
    /\ \A v \in VoteInputs : voteOutcome(v).reason # UnauthorizedKind

\* C22 witness: the owner has created a proposal and replaced the root, a
\* vote sent by another account was counted, and that account is refused
\* updateMemberRoot but may close the proposal.
C22_Witness ==
    /\ proposalCount = 1
    /\ memberMerkleRoot # BootRoot
    /\ \E e \in CastEvents : e.id = 1
    /\ now >= proposals[1].closes
    /\ updateMemberRootTx("alice", BootRoot).reason = UnauthorizedKind
    /\ closeProposalTx("alice", 1).status = "ok"

(* ------------------------------- C23 ----------------------------------- *)

\* C23: in every reachable state the membership root is the bootstrap
\* value while no updateMemberRoot has succeeded and afterwards the value
\* notified by the latest one; an updateMemberRoot of the owner succeeds
\* for any value, the current one included, stores it and emits exactly one
\* MemberRootUpdated carrying it; no other transaction changes the root.
C23_RootIsLatestUpdate ==
    /\ memberMerkleRoot = IF rootLog = <<>> THEN BootRoot ELSE rootLog[1]
    /\ \A newRoot \in Roots :
          LET out == updateMemberRootTx(Owner, newRoot)
          IN  /\ out.status = "ok"
              /\ out.memberMerkleRoot = newRoot
              /\ out.events = <<[name |-> "MemberRootUpdated",
                                 newRoot |-> newRoot]>>
    /\ \A v \in VoteInputs : voteOutcome(v).memberMerkleRoot = memberMerkleRoot
    /\ \A sender \in Callers, id \in Ids :
          closeProposalTx(sender, id).memberMerkleRoot = memberMerkleRoot
    /\ proposalCount < MaxProposals =>
          \A sender \in Callers, mode \in Modes, options \in OptionLists,
             duration \in Durations :
             createProposalTx(sender, "title", "description", mode, options,
                              duration).memberMerkleRoot = memberMerkleRoot

\* C23 witness: the root was replaced by a value other than the bootstrap
\* one, and a proposal was created, voted on and closed since the
\* deployment.
C23_Witness ==
    /\ rootLog # <<>>
    /\ memberMerkleRoot # BootRoot
    /\ proposalCount = 1
    /\ proposals[1].closed
    /\ \E e \in CastEvents : e.id = 1

(* ------------------------------- C24 ----------------------------------- *)

\* C24: in every reachable state getProposal and tallies fail when given
\* an id that was not created; they return no record for it.
C24_ReadsOfUnknownFail ==
    \A id \in Ids :
        ~created(id) =>
            /\ getProposal(id).status = "revert"
            /\ \A start \in StartArgs, n \in CountArgs :
                  tallies(id, start, n).status = "revert"

(* ------------------------------- C25 ----------------------------------- *)

\* The failure kind of tallies, by the revert reason of the contract.
OutOfBoundsKind == "oob"

\* C25: in every reachable state, for every created proposal with L
\* options, tallies(id, start, 0) with start < L returns the L - start
\* entries tally[start], ..., tally[L - 1] in this order, and
\* tallies(id, start, n) with start >= L fails with OutOfBounds for every n.
C25_TalliesToTheEnd ==
    \A id \in Ids, start \in StartArgs :
        created(id) =>
            LET p == proposals[id]
                L == Len(p.options)
            IN  IF start < L
                THEN LET r == tallies(id, start, 0)
                     IN  /\ r.status = "ok"
                         /\ Len(r.value) = L - start
                         /\ \A k \in 1 .. L - start :
                               r.value[k] = TallyAt(p, start + k - 1)
                ELSE \A n \in CountArgs :
                        LET r == tallies(id, start, n)
                        IN  r.status = "revert" /\ r.reason = OutOfBoundsKind

\* C25 witness: on a proposal of three options with votes counted for the
\* last one, tallies(1, 1, 0) returns the last two entries and
\* tallies(1, 3, 0) fails with OutOfBounds.
C25_Witness ==
    /\ created(1)
    /\ Len(proposals[1].options) = 3
    /\ TallyAt(proposals[1], 2) > 0
    /\ tallies(1, 1, 0).value
         = <<TallyAt(proposals[1], 1), TallyAt(proposals[1], 2)>>
    /\ tallies(1, 3, 0).reason = OutOfBoundsKind

(* ------------------------------- C26 ----------------------------------- *)

\* C26: in every reachable state, for every created proposal with L
\* options, every start < L and every count > 0 of the argument type,
\* tallies succeeds and returns tally[start], ..., tally[end - 1], where
\* end = start + count if start + count <= L and end = L otherwise, also
\* when start + count exceeds the range of the argument type.
C26_TalliesClamped ==
    \A id \in Ids, start \in StartArgs, n \in CountArgs :
        (created(id) /\ start < Len(proposals[id].options) /\ n > 0) =>
            LET p   == proposals[id]
                L   == Len(p.options)
                end == IF start + n <= L THEN start + n ELSE L
                r   == tallies(id, start, n)
            IN  /\ r.status = "ok"
                /\ r.value = [k \in 1 .. end - start |->
                                 TallyAt(p, start + k - 1)]

(* ------------------------------- C27 ----------------------------------- *)

\* The integer square root: the r with r * r <= b < (r + 1) * (r + 1).
FloorSqrt(b) == CHOOSE r \in 0 .. b : r * r <= b /\ b < (r + 1) * (r + 1)

\* The VoteWeight rule: 1 in Simple mode or without a weight oracle, the
\* floor of the square root of the caller's balance otherwise.
WeightRule(p, sender) ==
    IF p.mode = Simple \/ govToken = ZeroAddress THEN 1
    ELSE FloorSqrt(getVotes(sender))

\* The weights of the VoteCast events among events.
CastWeights(events) ==
    {events[k].weight : k \in {j \in DOMAIN events : events[j].name = "VoteCast"}}

\* C27: in every reachable state every vote that is accepted has the weight
\* of the VoteWeight rule: its VoteCast event carries this weight, and the
\* tally entry of its option becomes the previous entry plus this weight in
\* the arithmetic of the tally's word.
C27_WeightRule ==
    \A v \in VoteInputs :
        LET p   == proposals[v.id]
            out == voteOutcome(v)
            w   == WeightRule(p, v.sender)
        IN  out.status = "ok" =>
              /\ CastWeights(out.events) = {w}
              /\ TallyAt(out.proposals[v.id], v.option)
                   = (TallyAt(p, v.option) + w) % (Uint256Max + 1)

\* C27 witness: with a weight oracle configured, alice's vote on a
\* Quadratic proposal was counted with weight 3 for her balance of 9.
C27_Witness ==
    /\ govToken # ZeroAddress
    /\ \E e \in CastEvents :
          /\ proposals[e.id].mode = Quadratic
          /\ e.weight = 3
          /\ e.weight = FloorSqrt(getVotes("alice"))
          /\ TallyAt(proposals[e.id], e.option) = 3

(* ------------------------------- C28 ----------------------------------- *)

\* Every balance of the word.
Balances == 0 .. Uint256Max

\* C28: wherever a weight oracle is configured, for every balance b it can
\* report, the maximum of the word included, sqrt(b) ends without error and
\* returns the r with r * r <= b < (r + 1) * (r + 1).
C28_SqrtIsFloorRoot ==
    govToken # ZeroAddress =>
        \A b \in Balances : ~sqrtPanics(b) /\ sqrt(b) = FloorSqrt(b)

(* ------------------------------- C29 ----------------------------------- *)

\* The tally keys looked at: the option arguments and every key written.
TallyKeys(p) == OptionArgs \cup DOMAIN p.tally

\* C29: in every reachable state and for every proposal id, created or not,
\* the tally is zero at every index from options.length on, and every vote
\* that was accepted named an index below options.length.
C29_TallyWithinOptions ==
    /\ \A id \in Ids :
          LET p == proposals[id]
          IN  \A i \in TallyKeys(p) : i >= Len(p.options) => TallyAt(p, i) = 0
    /\ \A e \in CastEvents : e.option < Len(proposals[e.id].options)

\* C29 witness: a vote for the last option of a proposal was accepted and
\* counted, and the entry after it is zero.
C29_Witness ==
    \E e \in CastEvents :
        LET p == proposals[e.id]
        IN  /\ e.option = Len(p.options) - 1
            /\ TallyAt(p, e.option) > 0
            /\ TallyAt(p, Len(p.options)) = 0

(* ------------------------------- C30 ----------------------------------- *)

\* ProofVerified and VoteCast, the two notifications of a vote.
isVoteEvent(e) == e.name \in {"ProofVerified", "VoteCast"}

\* The notifications of a vote among events, in the order of emission.
VoteEvents(events) == SelectSeq(events, isVoteEvent)

\* C30: in every reachable state every vote that is accepted emits one
\* ProofVerified(id, merkleRoot, nullifierHash, signalHash) and then one
\* VoteCast(id, option, nullifierHash, weight), and no other of the two,
\* where weight is what the vote adds to the tally entry of its option in
\* the arithmetic of the tally's word; a vote that is rejected emits
\* neither; and for every proposal the number of VoteCast events equals the
\* number of nullifiers consumed for it.
C30_VoteEvents ==
    /\ \A v \in VoteInputs :
          LET p   == proposals[v.id]
              out == voteOutcome(v)
              ev  == VoteEvents(out.events)
          IN  IF out.status = "ok"
              THEN /\ Len(ev) = 2
                   /\ ev[1] = [name |-> "ProofVerified", id |-> v.id,
                               merkleRoot |-> v.merkleRoot,
                               nullifierHash |-> v.nullifierHash,
                               signalHash |-> v.signalHash]
                   /\ ev[2].name = "VoteCast"
                   /\ ev[2].id = v.id
                   /\ ev[2].option = v.option
                   /\ ev[2].nullifierHash = v.nullifierHash
                   /\ TallyAt(out.proposals[v.id], v.option)
                        = (TallyAt(p, v.option) + ev[2].weight)
                             % (Uint256Max + 1)
                   /\ DOMAIN ev[2] = {"name", "id", "option", "nullifierHash", "weight"}
              ELSE ev = <<>>
    /\ \A id \in Ids : AcceptedOn(id) = Cardinality(proposals[id].nullifiers)

\* C30 witness: one vote was accepted on a proposal, its nullifier is the
\* one consumed there, and sending it again is rejected.
C30_Witness ==
    \E e \in CastEvents :
        /\ proposals[e.id].nullifiers = {e.nullifierHash}
        /\ AcceptedOn(e.id) = 1
        /\ \E v \in VoteInputs :
              /\ v.id = e.id
              /\ v.nullifierHash = e.nullifierHash
              /\ v.option = e.option
              /\ v.signalHash = expectedSignalHash(e.option)
              /\ v.merkleRoot = memberMerkleRoot
              /\ voteOutcome(v).reason = NullifierAlreadyUsedKind

(* ------------------------------- C31 ----------------------------------- *)

\* Submission v sent by `sender` instead.
sentBy(v, sender) == [v EXCEPT !.sender = sender]

WeightSumFor(id, i) ==
    LET S == {e \in CastEvents : e.id = id /\ e.option = i}
    IN  SetSum(S, [e \in S |-> castLog[e] * e.weight])

\* C32: in every reachable state, for every proposal and every option i,
\* tally[i] is the sum of the weights of the votes accepted on the proposal
\* for option i, and a vote that is rejected leaves every entry as it was.
C32_TallyPerOption ==
    /\ \A id \in Ids, i \in OptionArgs :
          TallyAt(proposals[id], i) = WeightSumFor(id, i)
    /\ \A v \in VoteInputs :
          voteOutcome(v).status = "revert" =>
              voteOutcome(v).proposals = proposals

(* ------------------------------- C33 ----------------------------------- *)

\* The submissions the members send through the client on the proposals of
\* PairIds, by any caller.
PairVoteInputs ==
    {[sender |-> s, args |-> memberVoteArgs(m, i, o)] :
        s \in Callers, m \in Members, i \in PairIds, o \in OptionArgs}

\* The outcome of submission v of PairVoteInputs in the current state.
pairOutcome(v) ==
    voteTx(v.sender, v.args.id, v.args.option, v.args.signalHash,
           v.args.nullifierHash, v.args.merkleRoot, v.args.proof)

\* C33: in every reachable state a submission on proposal B fails with
\* NullifierAlreadyUsed only when its nullifier is in the ledger of B itself,
\* whatever the ledgers of the other proposals hold, and a vote accepted on
\* proposal A leaves the tally and the ledger of every other proposal as
\* they were.
C33_LedgerPerProposal ==
    \A v \in PairVoteInputs :
        LET out == pairOutcome(v)
        IN  /\ out.reason = NullifierAlreadyUsedKind =>
                  v.args.nullifierHash \in proposals[v.args.id].nullifiers
            /\ out.status = "ok" =>
                  \A B \in PairIds \ {v.args.id} :
                     /\ out.proposals[B].tally = proposals[B].tally
                     /\ out.proposals[B].nullifiers = proposals[B].nullifiers

\* C33 witness: a nullifier is in the ledger of proposal 1 and not in that
\* of proposal 2, and a vote carrying it on proposal 2 is accepted.
C33_Witness ==
    \E v \in PairVoteInputs :
        /\ v.args.id = 2
        /\ v.args.nullifierHash \in proposals[1].nullifiers
        /\ v.args.nullifierHash \notin proposals[2].nullifiers
        /\ pairOutcome(v).status = "ok"
        /\ pairOutcome(v).proposals[1] = proposals[1]

(* ------------------------------- C34 ----------------------------------- *)

\* Records p and q agree on title, description, mode, options and closes.
sameDefinition(p, q) ==
    /\ q.title = p.title
    /\ q.description = p.description
    /\ q.mode = p.mode
    /\ q.options = p.options
    /\ q.closes = p.closes

\* Outcome `out` leaves every proposal other than id as it was.
onlyProposal(out, id) ==
    \A B \in PairIds \ {id} : out.proposals[B] = proposals[B]

\* C34: in every reachable state every transaction that succeeds changes
\* its own target only. A vote on proposal p for option i with nullifier n
\* changes tally[p][i] and the ledger entry (p, n) and may set closed[p];
\* closeProposal(p) sets closed[p]; updateMemberRoot changes the root;
\* createProposal changes the record of the new id and the proposal count.
\* Title, description, mode, options and closes of a created proposal are
\* changed by none of them.
C34_OwnTargetOnly ==
    /\ \A v \in PairVoteInputs :
          LET out == pairOutcome(v)
              id  == v.args.id
              p   == proposals[id]
              q   == out.proposals[id]
          IN  out.status = "ok" =>
                /\ out.memberMerkleRoot = memberMerkleRoot
                /\ out.proposalCount = proposalCount
                /\ onlyProposal(out, id)
                /\ sameDefinition(p, q)
                /\ \A k \in (TallyKeys(p) \cup TallyKeys(q)) \ {v.args.option} :
                      TallyAt(q, k) = TallyAt(p, k)
                /\ q.nullifiers = p.nullifiers \cup {v.args.nullifierHash}
                /\ p.closed => q.closed
    /\ \A sender \in Callers, id \in PairIds :
          LET out == closeProposalTx(sender, id)
          IN  out.status = "ok" =>
                /\ out.memberMerkleRoot = memberMerkleRoot
                /\ out.proposalCount = proposalCount
                /\ out.proposals = [proposals EXCEPT ![id].closed = TRUE]
    /\ \A sender \in Callers, newRoot \in Roots :
          LET out == updateMemberRootTx(sender, newRoot)
          IN  out.status = "ok" =>
                /\ out.proposalCount = proposalCount
                /\ out.proposals = proposals
    /\ \A sender \in Callers, mode \in Modes, options \in OptionLists,
          duration \in Durations :
          proposalCount < MaxProposals + 1 =>
             LET out == createProposalTx(sender, "title", "description", mode,
                                         options, duration)
             IN  out.status = "ok" =>
                   /\ out.memberMerkleRoot = memberMerkleRoot
                   /\ out.proposalCount = proposalCount + 1
                   /\ onlyProposal(out, proposalCount + 1)
                   /\ \A id \in PairIds :
                         created(id) =>
                            sameDefinition(proposals[id], out.proposals[id])

\* C34 witness: proposal 1 holds a counted vote and is closed, proposal 2
\* is open, and a vote accepted on proposal 2 leaves proposal 1, the root
\* and the proposal count as they are.
C34_Witness ==
    /\ proposalCount = 2
    /\ proposals[1].closed
    /\ proposals[1].nullifiers # {}
    /\ \E v \in PairVoteInputs :
          /\ v.args.id = 2
          /\ pairOutcome(v).status = "ok"
          /\ pairOutcome(v).proposals[1] = proposals[1]
          /\ pairOutcome(v).proposals[2] # proposals[2]

(* ------------------------------- C35 ----------------------------------- *)

\* C35: in every reachable state, for every created proposal that is not
\* closed and whose close time is reached, closeProposal succeeds for any
\* caller, whatever the number of its options and whatever its tallies,
\* and sets closed with one ProposalClosed event for it.
C35_ExpiredCanClose ==
    \A id \in Ids, sender \in Callers :
        (created(id) /\ ~proposals[id].closed /\ now >= proposals[id].closes) =>
            LET out == closeProposalTx(sender, id)
            IN  /\ out.status = "ok"
                /\ out.proposals[id].closed
                /\ \E k \in DOMAIN out.events :
                      Closures(out.events) = {k} /\ out.events[k].id = id

(* ------------------------------- C36 ----------------------------------- *)

\* C36: in every reachable state every vote that is accepted raises the
\* tally entry of its option by at least 1, in Simple and in Quadratic
\* mode.
C36_AcceptedVoteCounts ==
    \A v \in VoteInputs :
        LET out == voteOutcome(v)
        IN  out.status = "ok" =>
               TallyAt(out.proposals[v.id], v.option)
                 >= TallyAt(proposals[v.id], v.option) + 1

(* ------------------------------- C37 ----------------------------------- *)

\* C37: in every reachable state, when the contract refused the vote of a
\* call of App.handleVote because its nullifier was already consumed for the
\* proposal, the call resumes by recording the proposal as voted: the id is
\* in votedProposalIds and in the list persisted for the identity.
C37_RefusedReplayRecorded ==
    \A call \in handleVoteCalls :
        (call.stage = "failed" /\ call.reason = NullifierAlreadyUsedKind) =>
            LET client == handleVoteResumed(call, clientNow)
            IN  /\ has(client.votedProposalIds, call.proposalId)
                /\ has(storedVotedIds(client.localStorage, call.identity),
                       call.proposalId)

(* ------------------------------- C38 ----------------------------------- *)

\* C38: in every reachable state where an identity is active,
\* votedProposalIds holds the ids of the list persisted in localStorage
\* under voted_ids_<commitment> of that identity, and no others.
C38_VotedMatchesStorage ==
    identity # NoIdentity =>
        Elements(votedProposalIds)
          = Elements(storedVotedIds(localStorage, identity))

(* ------------------------------- C39 ----------------------------------- *)

\* C39: in every reachable state, when two calls of App.handleVote made by
\* the active identity on two proposals are in flight and both transactions
\* succeeded, then after the two calls resumed, in either order, both
\* proposal ids are in votedProposalIds and in the list persisted for the
\* identity.
C39_BothVotesRecorded ==
    \A first \in handleVoteCalls, second \in handleVoteCalls :
        (/\ first.proposalId # second.proposalId
         /\ first.stage = "ok" /\ second.stage = "ok"
         /\ first.identity = identity /\ second.identity = identity) =>
            LET client == handleVoteResumed(second,
                             handleVoteResumed(first, clientNow))
                both   == {first.proposalId, second.proposalId}
            IN  /\ both \subseteq Elements(client.votedProposalIds)
                /\ both \subseteq
                      Elements(storedVotedIds(client.localStorage, identity))

====
